---- MODULE Spec2Model ----
(***************************************************************************)
(* A model of src/dataset.py: the HiddenManifold generator and its         *)
(* persistence helper (build_config, generate_dataset, save_dataset,       *)
(* load_dataset).                                                          *)
(*                                                                         *)
(* Python dictionaries are objects with identity: they live in `heap` and  *)
(* are referred to by address, so that `self.config = config` and          *)
(* `metadata = self.get_config()` alias one object, as they do in Python.  *)
(* The filesystem is a set of directories and a map from file paths to     *)
(* file contents; paths are real strings built as os.path.join builds them.*)
(***************************************************************************)
EXTENDS Integers, Sequences, FiniteSets, TLC

VARIABLES
    cuda,       \* torch.cuda.is_available() on this machine
    save_dir,   \* HiddenManifold.save_dir, the save root the helpers share
    heap,       \* the dict objects: address -> dict (EmptyDict when free)
    config,     \* helper -> address of self.config, 0 for None
    generated,  \* helper -> its last generate_dataset call returned a dataset
    dataset,    \* the tensor the caller holds (last one generated or loaded)
    dirs,       \* the directories that exist
    files,      \* file path -> file content, for the files that exist
    result,     \* the last call: operation, arguments, outcome, return value
    values      \* one generate_dataset call with its sampling spelled out

vars == <<cuda, save_dir, heap, config, generated, dataset, dirs, files, result, values>>

(* ------------------------------ bounds -------------------------------- *)

\* distinct outcomes of the random sampling of one generate_dataset call
MaxSample == 2
\* the samples torch.randn draws lie on the grid -FeatureRange..FeatureRange
FeatureRange == 1

Helpers == {1, 2}
Ids == {"a", "b"}
SaveRoots == {"data"}
None == 0
\* the dicts alive at once: at most one per generator
Addrs == 1..Cardinality(Helpers)

(* ------------------------------ values -------------------------------- *)

\* Python values held in a configuration: str, int, float (in thousandths).
PyStr(s) == [t |-> "str", s |-> s, n |-> 0]
PyInt(n) == [t |-> "int", s |-> "", n |-> n]
PyFloat(m) == [t |-> "float", s |-> "", n |-> m]

DictSet(d, k, v) == [x \in (DOMAIN d) \cup {k} |-> IF x = k THEN v ELSE d[x]]
DictDel(d, k) == [x \in (DOMAIN d) \ {k} |-> d[x]]

\* os.path.join(a, b) for a relative b
Join(a, b) == IF a = "" THEN b ELSE a \o "/" \o b

(* -------------------------- serialization ----------------------------- *)

\* torch.save / torch.load: the tensor wrapped in, and read back from, a
\* serialized file.
torch_save(tensor) == [torch |-> tensor]
torch_load(file) == file.torch

DigitChars == <<"0", "1", "2", "3", "4", "5", "6", "7", "8", "9">>
DigitOf(c) == (CHOOSE i \in 1..10 : DigitChars[i] = c) - 1

\* the decimal digits of a natural number, as json.dump writes them
RECURSIVE NatChars(_)
NatChars(n) == IF n < 10 THEN <<DigitChars[n + 1]>>
               ELSE NatChars(n \div 10) \o <<DigitChars[(n % 10) + 1]>>

RECURSIVE CharsNat(_)
CharsNat(cs) == IF Len(cs) = 0 THEN 0
                ELSE 10 * CharsNat(SubSeq(cs, 1, Len(cs) - 1)) + DigitOf(cs[Len(cs)])

\* the fraction digits of float repr: no trailing zeros, at least one digit
RECURSIVE StripZeros(_)
StripZeros(cs) == IF Len(cs) > 1 /\ cs[Len(cs)] = "0"
                  THEN StripZeros(SubSeq(cs, 1, Len(cs) - 1)) ELSE cs

FracChars(f) == StripZeros(<<DigitChars[(f \div 100) + 1],
                             DigitChars[((f \div 10) % 10) + 1],
                             DigitChars[(f % 10) + 1]>>)

RECURSIVE PadZeros(_)
PadZeros(cs) == IF Len(cs) < 3 THEN PadZeros(cs \o <<"0">>) ELSE cs

Abs(n) == IF n < 0 THEN 0 - n ELSE n
Sign(n) == IF n < 0 THEN <<"-">> ELSE <<>>

\* json.dump of one value: a JSON string or a JSON number
json_encode(v) ==
    CASE v.t = "str"   -> [kind |-> "string", chars |-> <<v.s>>]
      [] v.t = "int"   -> [kind |-> "number", chars |-> Sign(v.n) \o NatChars(Abs(v.n))]
      [] v.t = "float" -> [kind |-> "number",
                           chars |-> Sign(v.n) \o NatChars(Abs(v.n) \div 1000)
                                     \o <<".">> \o FracChars(Abs(v.n) % 1000)]

DotAt(cs) == IF \E i \in 1..Len(cs) : cs[i] = "."
             THEN CHOOSE i \in 1..Len(cs) : cs[i] = "." ELSE 0

\* json.load with every number read as an integer (parse_float=int)
json_decode_int(tok) ==
    IF tok.kind = "string" THEN PyStr(tok.chars[1])
    ELSE LET neg  == Len(tok.chars) > 0 /\ tok.chars[1] = "-"
             body == IF neg THEN Tail(tok.chars) ELSE tok.chars
             dot  == DotAt(body)
             mag  == CharsNat(IF dot = 0 THEN body ELSE SubSeq(body, 1, dot - 1))
         IN  PyInt(IF neg THEN 0 - mag ELSE mag)

\* json.load of one token: a number with a fraction part is a float
json_decode(tok) ==
    IF tok.kind = "string" THEN PyStr(tok.chars[1])
    ELSE LET neg  == Len(tok.chars) > 0 /\ tok.chars[1] = "-"
             body == IF neg THEN Tail(tok.chars) ELSE tok.chars
             dot  == DotAt(body)
             mag  == IF dot = 0 THEN CharsNat(body)
                     ELSE 1000 * CharsNat(SubSeq(body, 1, dot - 1))
                          + CharsNat(PadZeros(SubSeq(body, dot + 1, Len(body))))
             val  == IF neg THEN 0 - mag ELSE mag
         IN  IF dot = 0 THEN PyInt(val) ELSE PyFloat(val)

\* json.dump(metadata, f) and json.load(f) of a dict with string keys
json_dump(d) == [json |-> [k \in DOMAIN d |-> json_encode(d[k])]]
json_load(file) == [k \in DOMAIN file.json |-> json_decode(file.json[k])]

(* --------------------------- configuration ---------------------------- *)

DefaultD == 64
DefaultN == 1024
DefaultP == 8192

\* HiddenManifold.get_default_config: a fresh dict on every call
get_default_config ==
    [k \in {"feature_distribution", "nonlinearity", "D", "N", "P", "p", "noise", "device"} |->
        CASE k = "feature_distribution" -> PyStr("gaussian")
          [] k = "nonlinearity"         -> PyStr("tanh")
          [] k = "D"                    -> PyInt(DefaultD)
          [] k = "N"                    -> PyInt(DefaultN)
          [] k = "P"                    -> PyInt(DefaultP)
          [] k = "p"                    -> PyFloat(500)
          [] k = "noise"                -> PyFloat(0)
          [] k = "device"               -> PyStr(IF cuda THEN "cuda" ELSE "cpu")]

\* the loop without its membership test: every key is taken
RECURSIVE ApplyOverrides_lenient(_, _, _)
ApplyOverrides_lenient(cfg, kwargs, i) ==
    IF i > Len(kwargs) THEN [error |-> "", key |-> "", config |-> cfg]
    ELSE ApplyOverrides_lenient(DictSet(cfg, kwargs[i][1], kwargs[i][2]), kwargs, i + 1)

\* the loop of build_config over kwargs.items(), from item i on: the first
\* key that is not in config raises ValueError naming it
RECURSIVE ApplyOverrides(_, _, _)
ApplyOverrides(cfg, kwargs, i) ==
    IF i > Len(kwargs) THEN [error |-> "", key |-> "", config |-> cfg]
    ELSE IF kwargs[i][1] \notin DOMAIN cfg
         THEN [error |-> "ValueError", key |-> kwargs[i][1], config |-> cfg]
         ELSE ApplyOverrides(DictSet(cfg, kwargs[i][1], kwargs[i][2]), kwargs, i + 1)

\* the keyword arguments the callers pass to build_config
Overrides ==
    { <<>>,
      << <<"nonlinearity", PyStr("relu")>>, <<"noise", PyFloat(100)>> >>,
      << <<"nonlinearity", PyStr("sigmoid")>> >>,
      << <<"feature_distribution", PyStr("uniform")>> >>,
      << <<"foo", PyInt(1)>> >>,
      << <<"p", PyFloat(1000)>>, <<"foo", PyInt(1)>> >>,
      << <<"bar", PyInt(2)>>, <<"foo", PyInt(1)>> >>,
      << <<"Noise", PyFloat(100)>>, <<"D", PyInt(4)>> >> }

\* the keyword arguments of the callers that go on to save what they generate
SavedOverrides ==
    { <<>>,
      << <<"foo", PyInt(1)>> >> }

EmptyDict == [x \in {} |-> PyInt(0)]
NoTensor == [shape |-> <<0, 0>>, device |-> "", sample |-> 0]

\* The record of a call: its arguments, how it ended (outcome is "ok" or the
\* exception's name, key the key a ValueError or KeyError names) and the
\* dict it returned.
Call(op) == [op |-> op, h |-> 0, id |-> "", exist_ok |-> FALSE, arg |-> 0,
             kind |-> "", kwargs |-> <<>>, outcome |-> "ok", key |-> "",
             metadata |-> EmptyDict]

\* everything but the machine: no dict, no directory, no file
Fresh ==
    /\ save_dir \in SaveRoots
    /\ heap = [a \in Addrs |-> EmptyDict]
    /\ config = [h \in Helpers |-> None]
    /\ generated = [h \in Helpers |-> FALSE]
    /\ dataset = NoTensor
    /\ dirs = {}
    /\ files = [x \in {} |-> torch_save(NoTensor)]
    /\ result = Call("init")

\* no generation spelled out
NoValues == [config |-> EmptyDict, outcome |-> "", feature_matrix |-> <<>>,
             latent_patterns |-> <<>>, data |-> <<>>]

\* a machine without an accelerator
Init == cuda = FALSE /\ Fresh /\ values = NoValues


\* HiddenManifold.build_config(**kwargs); the dict it returns is the caller's
\* until the caller hands it to a generator
build_config(kwargs) ==
    LET r == ApplyOverrides(get_default_config, kwargs, 1) IN
    /\ result' = [Call("build_config") EXCEPT
                     !.kwargs = kwargs,
                     !.outcome = IF r.error = "" THEN "ok" ELSE r.error,
                     !.key = r.key,
                     !.metadata = IF r.error = "" THEN r.config ELSE EmptyDict]
    /\ UNCHANGED <<cuda, save_dir, heap, config, generated, dataset, dirs, files, values>>

\* HiddenManifold.get_config
get_config(h) == config[h]

(* ----------------------------- generation ----------------------------- *)

FirstMissing(c, keys) ==
    IF \E i \in 1..Len(keys) : keys[i] \notin DOMAIN c
    THEN keys[CHOOSE i \in 1..Len(keys) :
                  /\ keys[i] \notin DOMAIN c
                  /\ \A j \in 1..(i - 1) : keys[j] \in DOMAIN c]
    ELSE ""

\* generate_dataset, lines 122-135: the two match statements and the reads
\* of the other parameters, in the order the code does them
ResolveOptions(c) ==
    IF "feature_distribution" \notin DOMAIN c
    THEN [outcome |-> "KeyError", key |-> "feature_distribution"]
    ELSE IF c["feature_distribution"] # PyStr("gaussian")
    THEN [outcome |-> "NotImplementedError", key |-> ""]
    ELSE IF "nonlinearity" \notin DOMAIN c
    THEN [outcome |-> "KeyError", key |-> "nonlinearity"]
    ELSE IF c["nonlinearity"] \notin {PyStr("relu"), PyStr("tanh")}
    THEN [outcome |-> "NotImplementedError", key |-> ""]
    ELSE IF FirstMissing(c, <<"D", "N", "P", "p", "noise", "device">>) # ""
    THEN [outcome |-> "KeyError",
          key |-> FirstMissing(c, <<"D", "N", "P", "p", "noise", "device">>)]
    ELSE [outcome |-> "ok", key |-> ""]

\* A dict no generator refers to any more is garbage: its address is free.
Live(conf) == {conf[h] : h \in Helpers} \ {None}
FreeAddr(conf) == CHOOSE a \in Addrs :
                     /\ a \notin Live(conf)
                     /\ \A b \in Addrs : b < a => b \in Live(conf)
Collect(hp, conf) == [a \in Addrs |-> IF a \in Live(conf) THEN hp[a] ELSE EmptyDict]

\* What a caller passes as generate_dataset's config: None, the dict
\* build_config has just returned, or a dict it passed to a generator before.
ArgNone == [kind |-> "None", addr |-> None]
ArgBuilt == [kind |-> "built", addr |-> None]
ArgHeld(a) == [kind |-> "held", addr |-> a]
ConfigArgs ==
    {ArgNone}
    \cup (IF result.op = "build_config" /\ result.outcome = "ok" THEN {ArgBuilt} ELSE {})
    \cup {ArgHeld(a) : a \in Live(config)}

\* self.config = config, the first statement after the default is resolved
StoreConfig(h, a) == [config EXCEPT ![h] = a]

\* HiddenManifold.generate_dataset(config) on helper h.  The content of the
\* returned P x N tensor is random: `sample` tells the possible outcomes apart.
generate_dataset(h, arg) ==
    LET a     == IF arg.kind = "held" THEN arg.addr
                 ELSE FreeAddr([config EXCEPT ![h] = None])
        \* lines 119-120: a fresh default dict when config is None
        heap1 == CASE arg.kind = "None"  -> [heap EXCEPT ![a] = get_default_config]
                   [] arg.kind = "built" -> [heap EXCEPT ![a] = result.metadata]
                   [] arg.kind = "held"  -> heap
        r     == ResolveOptions(heap1[a])
    IN  /\ config' = StoreConfig(h, a)
        /\ heap' = Collect(heap1, config')
        /\ generated' = [generated EXCEPT ![h] = (r.outcome = "ok")]
        /\ \E k \in 1..MaxSample :
             /\ dataset' = IF r.outcome = "ok"
                           THEN [shape |-> <<heap1[a]["P"].n, heap1[a]["N"].n>>,
                                 device |-> heap1[a]["device"].s, sample |-> k]
                           ELSE dataset
             /\ result' = [Call("generate_dataset") EXCEPT
                              !.h = h, !.arg = arg.addr, !.kind = arg.kind,
                              !.outcome = r.outcome, !.key = r.key]
        /\ UNCHANGED <<cuda, save_dir, dirs, files, values>>

(* ----------------------- generation, spelled out ---------------------- *)

\* Fixed point: a sample of randn is a whole number of units, the argument
\* of the nonlinearity a whole number of half units, a data value a whole
\* number of thousandths (as the float parameters p and noise are).

\* torch.randn((rows, cols)): every matrix over the sample grid
randn(rows, cols) == [1..rows -> [1..cols -> (0 - FeatureRange)..FeatureRange]]

\* torch.bernoulli(p * torch.ones((rows, cols))): an entry is 1 with
\* probability p, so always 1 when p = 1 and never when p = 0
BernoulliDraws(p) == IF p >= 1000 THEN {1} ELSE IF p <= 0 THEN {0} ELSE {0, 1}
bernoulli(p, rows, cols) == [1..rows -> [1..cols -> BernoulliDraws(p)]]

RECURSIVE Dot(_, _, _, _)
Dot(row, M, j, d) == IF d = 0 THEN 0 ELSE Dot(row, M, j, d - 1) + row[d] * M[d][j]

\* torch.matmul(A, B) for A of shape rows x inner and B of shape inner x cols
matmul(A, B, rows, inner, cols) ==
    [i \in 1..rows |-> [j \in 1..cols |-> Dot(A[i], B, j, inner)]]

\* the division by D, not by its square root
Sqrt_linear(D) == D
\* torch.sqrt(torch.tensor(D)), for the D that are perfect squares
Sqrt(D) == CHOOSE r \in 0..D : r * r = D

\* 1000 * tanh(k / 2) for k = 0, 1, 2, ..., rounded; 1000 from k = 9 on
TanhTable == <<0, 462, 762, 905, 964, 987, 995, 998, 999>>
Tanh(k) == IF k < 0 THEN 0 - (IF 0 - k < 9 THEN TanhTable[1 - k] ELSE 1000)
           ELSE IF k < 9 THEN TanhTable[k + 1] ELSE 1000

\* the nonlinearity the second match statement resolves, on k half units
sigma(nonlinearity, k) ==
    CASE nonlinearity = "relu" -> IF k > 0 THEN 500 * k ELSE 0
      [] nonlinearity = "tanh" -> Tanh(k)

\* lines 137-141 for the feature matrix F, the latent patterns L and the
\* noise samples E
Forward(c, F, L, E) ==
    LET D == c["D"].n
        N == c["N"].n
        P == c["P"].n
        noise == IF c["noise"].t = "int" THEN 1000 * c["noise"].n ELSE c["noise"].n
        projected == matmul(L, F, P, D, N)
    IN  [device |-> c["device"].s,
         rows |-> [i \in 1..P |-> [j \in 1..N |->
                     sigma(c["nonlinearity"].s, (2 * projected[i][j]) \div Sqrt(D))
                     + (noise * E[i][j]) \div 1000]]]

\* the keyword arguments of the callers whose generation is spelled out:
\* four features of one dimension without noise, one feature of two
\* dimensions with and without noise, and the two options generate_dataset
\* does not support
SmallConfig(nonlinearity, D, N, p, noise) ==
    << <<"nonlinearity", PyStr(nonlinearity)>>, <<"D", PyInt(D)>>, <<"N", PyInt(N)>>,
       <<"P", PyInt(2)>>, <<"p", PyFloat(p)>>, <<"noise", PyFloat(noise)>> >>

GenOverrides ==
    {SmallConfig(s, 4, 1, p, 0) : s \in {"relu", "tanh"}, p \in {0, 500, 1000}}
    \cup {SmallConfig(s, 1, 2, p, z) : s \in {"relu", "tanh"}, p \in {0, 500, 1000}, z \in {0, 100}}
    \cup {SmallConfig("sigmoid", 1, 2, 1000, 0),
          << <<"feature_distribution", PyStr("uniform")>> >>}

\* a machine of either kind, and a configuration built by build_config
InitGen ==
    /\ cuda \in BOOLEAN
    /\ Fresh
    /\ \E kwargs \in GenOverrides :
          values = [NoValues EXCEPT !.config = ApplyOverrides(get_default_config, kwargs, 1).config]

\* generate_dataset(config) from line 122 on, once, with what it samples
generate_values ==
    LET c == values.config
        r == ResolveOptions(c)
    IN  /\ values.outcome = ""
        /\ IF r.outcome # "ok"
           THEN values' = [values EXCEPT !.outcome = r.outcome]
           ELSE \E F \in randn(c["D"].n, c["N"].n) :
                \E L \in bernoulli(IF c["p"].t = "int" THEN 1000 * c["p"].n ELSE c["p"].n,
                                    c["P"].n, c["D"].n) :
                \E E \in (IF c["noise"].n = 0 THEN {[i \in 1..c["P"].n |-> [j \in 1..c["N"].n |-> 0]]}
                           ELSE randn(c["P"].n, c["N"].n)) :
                    values' = [values EXCEPT !.outcome = "ok",
                                             !.feature_matrix = F,
                                             !.latent_patterns = L,
                                             !.data = Forward(c, F, L, E)]
        /\ UNCHANGED <<cuda, save_dir, heap, config, generated, dataset, dirs, files, result>>

(* ----------------------------- persistence ---------------------------- *)

\* HiddenManifold.get_dirname
get_dirname(id) == "rf_" \o id

\* save_dataset line 175, load_dataset line 194
DatasetDir(id) == Join(save_dir, get_dirname(id))
\* the dataset file written next to the directories, not inside one
DatasetFile_flat(dataset_dir) == Join(save_dir, "dataset.pt")
\* save_dataset line 178
DatasetFile(dataset_dir) == Join(dataset_dir, "dataset.pt")
\* save_dataset line 185, load_dataset line 195
MetadataFile(dataset_dir) == Join(dataset_dir, "metadata.json")

WriteFile(fs, path, content) ==
    [x \in (DOMAIN fs) \cup {path} |-> IF x = path THEN content ELSE fs[x]]

\* os.makedirs(dataset_dir): the directory and the save root above it
MakeDirs(dataset_dir) == dirs \cup {dataset_dir} \cup (IF save_dir = "" THEN {} ELSE {save_dir})

\* os.makedirs(dataset_dir, exist_ok=True): the flag not passed on
Collides_never(dataset_dir, exist_ok) == FALSE
\* os.makedirs(dataset_dir, exist_ok=exist_ok) raises FileExistsError
Collides(dataset_dir, exist_ok) == dataset_dir \in dirs /\ ~exist_ok

\* the del statement left out
RemoveDevice_keep(m) == m
\* del metadata["device"], line 184
RemoveDevice(m) == DictDel(m, "device")

\* save_dataset lines 181-183 on the dict object get_config returned
InjectIds(d, id, filepath, dataset_dir) ==
    DictSet(DictSet(DictSet(d, "id", PyStr(id)), "dataset_path", PyStr(filepath)),
            "dataset_dir", PyStr(dataset_dir))

\* HiddenManifold.save_dataset(dataset, id, exist_ok, log_to_wandb) on helper h
save_dataset(h, d, id, exist_ok, log_to_wandb) ==
    LET dataset_dir == DatasetDir(id)
        filepath    == DatasetFile(dataset_dir)
        call        == [Call("save_dataset") EXCEPT
                          !.h = h, !.id = id, !.exist_ok = exist_ok]
        files1      == WriteFile(files, filepath, torch_save(d))
        m           == get_config(h)
    IN  /\ UNCHANGED <<cuda, save_dir, config, generated, dataset, values>>
        /\ IF Collides(dataset_dir, exist_ok)
           THEN \* os.makedirs raises FileExistsError
                /\ result' = [call EXCEPT !.outcome = "FileExistsError"]
                /\ UNCHANGED <<heap, dirs, files>>
           ELSE /\ dirs' = MakeDirs(dataset_dir)
                /\ IF m = None
                   THEN \* metadata["id"] = id on None raises TypeError
                        /\ result' = [call EXCEPT !.outcome = "TypeError"]
                        /\ files' = files1
                        /\ UNCHANGED heap
                   ELSE LET m1 == InjectIds(heap[m], id, filepath, dataset_dir) IN
                        IF "device" \notin DOMAIN m1
                        THEN \* del metadata["device"] raises KeyError
                             /\ result' = [call EXCEPT !.outcome = "KeyError", !.key = "device"]
                             /\ heap' = [heap EXCEPT ![m] = m1]
                             /\ files' = files1
                        ELSE LET m2 == RemoveDevice(m1) IN
                             \* then WandbLogger.log_dataset(dataset, metadata, ...)
                             \* when log_to_wandb: an external service, none of
                             \* this program's state
                             /\ result' = call
                             /\ heap' = [heap EXCEPT ![m] = m2]
                             /\ files' = WriteFile(files1, MetadataFile(dataset_dir), json_dump(m2))

\* load_dataset falling back on the dataset file of the directory when the
\* metadata record is missing
load_dataset_fallback(id) ==
    LET dataset_dir   == DatasetDir(id)
        metadata_path == MetadataFile(dataset_dir)
        fallback      == DatasetFile(dataset_dir)
        call          == [Call("load_dataset") EXCEPT !.id = id]
    IN  /\ UNCHANGED <<cuda, save_dir, heap, config, generated, dirs, files, values>>
        /\ IF metadata_path \notin DOMAIN files
           THEN IF fallback \in DOMAIN files
                THEN /\ result' = call
                     /\ dataset' = torch_load(files[fallback])
                ELSE /\ result' = [call EXCEPT !.outcome = "FileNotFoundError"]
                     /\ UNCHANGED dataset
           ELSE LET metadata     == json_load(files[metadata_path])
                    dataset_path == metadata["dataset_path"].s
                IN  IF dataset_path \notin DOMAIN files
                    THEN /\ result' = [call EXCEPT !.outcome = "FileNotFoundError"]
                         /\ UNCHANGED dataset
                    ELSE /\ result' = [call EXCEPT !.metadata = metadata]
                         /\ dataset' = torch_load(files[dataset_path])

\* HiddenManifold.load_dataset(id); the caller keeps the returned tensor
load_dataset(id) ==
    LET dataset_dir   == DatasetDir(id)
        metadata_path == MetadataFile(dataset_dir)
        call          == [Call("load_dataset") EXCEPT !.id = id]
    IN  /\ UNCHANGED <<cuda, save_dir, heap, config, generated, dirs, files, values>>
        /\ IF metadata_path \notin DOMAIN files
           THEN /\ result' = [call EXCEPT !.outcome = "FileNotFoundError"]
                /\ UNCHANGED dataset
           ELSE LET metadata     == json_load(files[metadata_path])
                    dataset_path == metadata["dataset_path"].s
                IN  IF dataset_path \notin DOMAIN files
                    THEN /\ result' = [call EXCEPT !.outcome = "FileNotFoundError"]
                         /\ UNCHANGED dataset
                    ELSE /\ result' = [call EXCEPT !.metadata = metadata]
                         /\ dataset' = torch_load(files[dataset_path])

(* ------------------------- the specifications ------------------------ *)

\* The callers that generate, save and load.  They save the tensor they
\* hold, with log_to_wandb=False as the example usage does (line 283): the
\* logger is an external service.
Next ==
    \/ \E kwargs \in SavedOverrides : build_config(kwargs)
    \/ \E h \in Helpers, arg \in ConfigArgs : generate_dataset(h, arg)
    \/ \E h \in Helpers, id \in Ids, exist_ok \in BOOLEAN :
          /\ dataset # NoTensor
          /\ save_dataset(h, dataset, id, exist_ok, FALSE)
    \/ \E id \in Ids : load_dataset(id)

Spec == Init /\ [][Next]_vars

\* The callers that build configurations of every kind, generate with them
\* and save under one id.
NextConfig ==
    \/ \E kwargs \in Overrides : build_config(kwargs)
    \/ \E h \in Helpers, arg \in ConfigArgs : generate_dataset(h, arg)
    \/ \E h \in Helpers :
          /\ dataset # NoTensor
          /\ save_dataset(h, dataset, "a", TRUE, FALSE)

SpecConfig == Init /\ [][NextConfig]_vars

\* One generation, from a configuration to the tensor.
NextGen == generate_values

SpecGen == InitGen /\ [][NextGen]_vars

(* ------------------------------ claims -------------------------------- *)

\* C1: a save_dataset(d, id) that completes, directly followed by
\* load_dataset(id), makes the load return a dataset equal to d (the tensor
\* the caller holds and passed to the save) and a metadata mapping equal to
\* the dict the save wrote: the generator's config object as the save left
\* it, without device, with id, dataset_path and dataset_dir.
C1_SaveLoadRoundTrip ==
    [][ ( /\ result.op = "save_dataset" /\ result.outcome = "ok"
          /\ result'.op = "load_dataset" /\ result'.id = result.id )
        => ( /\ result'.outcome = "ok"
             /\ dataset' = dataset
             /\ result'.metadata = heap[config[result.h]]
             /\ "device" \notin DOMAIN result'.metadata
             /\ result'.metadata["id"] = PyStr(result.id)
             /\ result'.metadata["dataset_dir"] = PyStr(Join(save_dir, "rf_" \o result.id))
             /\ result'.metadata["dataset_path"] =
                    PyStr(Join(Join(save_dir, "rf_" \o result.id), "dataset.pt")) ) ]_vars

C1_Witness ==
    /\ result.op = "load_dataset" /\ result.outcome = "ok"
    /\ dataset # NoTensor
    /\ "p" \in DOMAIN result.metadata /\ result.metadata["p"] = PyFloat(500)
    /\ result.metadata["id"] = PyStr(result.id)

\* C2: save_dataset with exist_ok=False on a directory that exists fails with
\* FileExistsError, and no file or directory is created or modified.
C2_CollisionWritesNothing ==
    [][ ( /\ result'.op = "save_dataset" /\ ~result'.exist_ok
          /\ Join(save_dir, "rf_" \o result'.id) \in dirs )
        => ( /\ result'.outcome = "FileExistsError"
             /\ files' = files
             /\ dirs' = dirs ) ]_vars

C2_Witness ==
    /\ result.op = "save_dataset" /\ result.outcome = "FileExistsError"
    /\ Join(Join(save_dir, "rf_" \o result.id), "metadata.json") \in DOMAIN files
    /\ Join(Join(save_dir, "rf_" \o result.id), "dataset.pt") \in DOMAIN files

\* C3: build_config fails with a ValueError naming an override key if and
\* only if some override key is not a key of the default configuration;
\* otherwise it returns the default configuration with exactly the overridden
\* keys replaced.  This holds of every call, whatever was built, generated or
\* saved before it, and a generate_dataset(None) works on the plain defaults.
C3_BuildConfigContract ==
    LET defaults ==
          [k \in {"feature_distribution", "nonlinearity", "D", "N", "P", "p", "noise", "device"} |->
              CASE k = "feature_distribution" -> PyStr("gaussian")
                [] k = "nonlinearity"         -> PyStr("tanh")
                [] k = "D"                    -> PyInt(64)
                [] k = "N"                    -> PyInt(1024)
                [] k = "P"                    -> PyInt(8192)
                [] k = "p"                    -> PyFloat(500)
                [] k = "noise"                -> PyFloat(0)
                [] k = "device"               -> PyStr(IF cuda THEN "cuda" ELSE "cpu")]
        kw      == result.kwargs
        unknown == {i \in 1..Len(kw) : kw[i][1] \notin DOMAIN defaults}
    IN  /\ result.op = "build_config" =>
              /\ result.outcome = "ValueError" <=> unknown # {}
              /\ unknown # {} => result.key \in {kw[i][1] : i \in unknown}
              /\ unknown = {} =>
                    /\ result.outcome = "ok"
                    /\ result.metadata =
                          [k \in DOMAIN defaults |->
                              IF \E i \in 1..Len(kw) : kw[i][1] = k
                              THEN kw[CHOOSE i \in 1..Len(kw) : kw[i][1] = k][2]
                              ELSE defaults[k]]
        /\ (result.op = "generate_dataset" /\ result.kind = "None") =>
              heap[config[result.h]] = defaults

\* a build with overrides, after a save has rewritten a generator's config
C3_Witness ==
    /\ result.op = "build_config" /\ result.outcome = "ok" /\ result.kwargs # <<>>
    /\ \E h \in Helpers : config[h] # None /\ "id" \in DOMAIN heap[config[h]]

\* C4: the metadata record a completed save_dataset(d, id) writes has exactly
\* the fields of the generator's config as it was when the save began, minus
\* device, plus id, dataset_path and dataset_dir; device is not in it.
C4_MetadataRecord ==
    [][ ( result'.op = "save_dataset" /\ result'.outcome = "ok" )
        => LET c       == heap[config[result'.h]]
               dir     == Join(save_dir, "rf_" \o result'.id)
               written == json_load(files'[Join(dir, "metadata.json")])
           IN  /\ "device" \notin DOMAIN written
               /\ written =
                    [k \in ((DOMAIN c) \ {"device"}) \cup {"id", "dataset_path", "dataset_dir"} |->
                        CASE k = "id"           -> PyStr(result'.id)
                          [] k = "dataset_path" -> PyStr(Join(dir, "dataset.pt"))
                          [] k = "dataset_dir"  -> PyStr(dir)
                          [] OTHER              -> c[k]] ]_vars

C4_Witness ==
    /\ result.op = "save_dataset" /\ result.outcome = "ok"
    /\ Join(Join(save_dir, "rf_" \o result.id), "metadata.json") \in DOMAIN files

\* C5: after a generate_dataset that returned, no save_dataset or load_dataset
\* changes the generator's last-used config: get_config() is the same object
\* with the same keys and values.
C5_ConfigImmutable ==
    [][ result'.op \in {"save_dataset", "load_dataset"}
        => \A h \in Helpers :
              generated[h] => /\ config'[h] = config[h]
                              /\ heap'[config[h]] = heap[config[h]] ]_vars

\* C6: every directory that holds a metadata.json also holds dataset.pt, and
\* the dataset_path recorded in the metadata is the path of that dataset.pt.
C6_FilesAgree ==
    \A d \in dirs :
        Join(d, "metadata.json") \in DOMAIN files
        => /\ Join(d, "dataset.pt") \in DOMAIN files
           /\ json_load(files[Join(d, "metadata.json")])["dataset_path"]
                 = PyStr(Join(d, "dataset.pt"))

\* a save that failed part-way in a directory that already held both files
C6_Witness ==
    /\ result.op = "save_dataset" /\ result.outcome \in {"KeyError", "TypeError"}
    /\ Join(Join(save_dir, "rf_" \o result.id), "metadata.json") \in DOMAIN files
    /\ \E d \in dirs : /\ Join(d, "dataset.pt") \in DOMAIN files
                       /\ Join(d, "metadata.json") \notin DOMAIN files

\* C7: load_dataset(id) when the directory of id holds no metadata record
\* fails with FileNotFoundError, returns nothing, and leaves the filesystem,
\* the configs and the caller's tensor as they were.
C7_LoadMissing ==
    [][ ( /\ result'.op = "load_dataset"
          /\ Join(Join(save_dir, "rf_" \o result'.id), "metadata.json") \notin DOMAIN files )
        => ( /\ result'.outcome = "FileNotFoundError"
             /\ result'.metadata = EmptyDict
             /\ dataset' = dataset
             /\ files' = files /\ dirs' = dirs
             /\ config' = config /\ heap' = heap ) ]_vars

\* a load of an id whose save failed before the metadata was written
C7_Witness ==
    /\ result.op = "load_dataset" /\ result.outcome = "FileNotFoundError"
    /\ Join(Join(save_dir, "rf_" \o result.id), "dataset.pt") \in DOMAIN files

\* C8: on a generator whose generate_dataset returned, every save_dataset to
\* a fresh id, or with exist_ok=True, completes and leaves both files.
C8_SavesComplete ==
    [][ ( /\ result'.op = "save_dataset"
          /\ generated[result'.h]
          /\ (Join(save_dir, "rf_" \o result'.id) \notin dirs \/ result'.exist_ok) )
        => ( /\ result'.outcome = "ok"
             /\ Join(Join(save_dir, "rf_" \o result'.id), "dataset.pt") \in DOMAIN files'
             /\ Join(Join(save_dir, "rf_" \o result'.id), "metadata.json") \in DOMAIN files' ) ]_vars

\* C9: a generate_dataset that fails with NotImplementedError leaves
\* get_config() as it was before the call: the same object (None if there was
\* none) with the same content.
C9_FailedGenerateKeepsConfig ==
    [][ ( result'.op = "generate_dataset" /\ result'.outcome = "NotImplementedError" )
        => ( /\ config'[result'.h] = config[result'.h]
             /\ config[result'.h] # None
                  => heap'[config'[result'.h]] = heap[config[result'.h]] ) ]_vars

\* C10: with p = 1 and noise = 0, generate_dataset returns P rows of N values,
\* all rows identical, each value the nonlinearity of (the sum of the D rows
\* of the feature matrix in that column) / sqrt(D).
C10_OneManifoldPoint ==
    LET c == values.config IN
    ( /\ values.outcome = "ok"
      /\ c["p"] \in {PyFloat(1000), PyInt(1)}
      /\ c["noise"] \in {PyFloat(0), PyInt(0)} )
    => LET F == values.feature_matrix
           column(j) == IF c["D"].n = 1 THEN F[1][j]
                        ELSE F[1][j] + F[2][j] + F[3][j] + F[4][j]
           halves(j) == IF c["D"].n = 1 THEN 2 * column(j) ELSE column(j)
           expected(j) == IF c["nonlinearity"].s = "relu"
                          THEN (IF halves(j) > 0 THEN 500 * halves(j) ELSE 0)
                          ELSE Tanh(halves(j))
       IN  /\ DOMAIN values.data.rows = 1..c["P"].n
           /\ \A i \in 1..c["P"].n :
                 /\ DOMAIN values.data.rows[i] = 1..c["N"].n
                 /\ values.data.rows[i] = values.data.rows[1]
                 /\ \A j \in 1..c["N"].n : values.data.rows[i][j] = expected(j)

\* a generation with p = 1, no noise, four feature rows that do not cancel
C10_Witness ==
    /\ values.outcome = "ok"
    /\ values.config["p"] = PyFloat(1000) /\ values.config["noise"] = PyFloat(0)
    /\ values.config["D"] = PyInt(4)
    /\ values.feature_matrix[1][1] < 0 /\ values.data.rows[2][1] > 0

====
